---- MODULE Spec2Model ----
(***************************************************************************)
(* Model of the ZSV string view (src/src/lib.rs): a wrapper around a       *)
(* UTF-8 String with forward/backward search and split operations.         *)
(*                                                                         *)
(* A String is modelled as the sequence of its chars; every char has a     *)
(* UTF-8 width in bytes, so that String::len() (bytes), chars() (scalar    *)
(* values) and byte-indexed slicing keep the differences they have in the  *)
(* program.  A panic (index out of bounds, slice off a char boundary,      *)
(* arithmetic overflow) is an outcome of its own.                          *)
(***************************************************************************)
EXTENDS Integers, Sequences, FiniteSets, TLC

\* ---- bounds ----
MaxLen == 3
MaxNeedle == 2

\* ---- characters and strings ----
\* "a" and "b" are one-byte (ASCII) chars, "E" is a two-byte char (U+00E9)
Chars == {"a", "b", "E"}

Width(ch) == IF ch = "E" THEN 2 ELSE 1

RECURSIVE ByteLen(_)
ByteLen(s) == IF s = <<>> THEN 0 ELSE Width(Head(s)) + ByteLen(Tail(s))

RECURSIVE Reverse(_)
Reverse(s) == IF s = <<>> THEN <<>> ELSE Append(Reverse(Tail(s)), Head(s))

Texts(n) == UNION {[1..k -> Chars] : k \in 0..n}

\* ---- Option and outcomes ----
None == <<>>
Some(v) == <<v>>

Ok(v) == [kind |-> "ok", val |-> v]
Panic(why) == [kind |-> why, val |-> <<>>]

\* ---- byte-indexed slicing of a String ----
IsCharBoundary(data, k) == \E j \in 0..Len(data) : ByteLen(SubSeq(data, 1, j)) = k

CharsBefore(data, k) == CHOOSE j \in 0..Len(data) : ByteLen(SubSeq(data, 1, j)) = k

SliceTo(data, k) == SubSeq(data, 1, CharsBefore(data, k))

SliceFrom(data, k) == SubSeq(data, CharsBefore(data, k) + 1, Len(data))

\* ---- find_char ----
RECURSIVE find_char_loop(_, _, _)
find_char_loop(chars, f, indx) ==
    IF chars = <<>> THEN Ok(None)
    ELSE IF Head(chars) = f THEN Ok(Some(indx))
    ELSE find_char_loop(Tail(chars), f, indx + 1)

find_char_m(data, f) == find_char_loop(data, f, 1)
find_char(data, f) == find_char_loop(data, f, 0)

\* ---- the inner comparison loop of find_string / rfind_string ----
\* for b in 0..f.data.len(): data_char_array_cache[a+b] != f_char_array_cache[b]
RECURSIVE compare_at(_, _, _, _)
compare_at(data, f, a, b) ==
    IF b >= ByteLen(f) THEN "match"
    ELSE IF a + b >= Len(data) THEN "oob"
    ELSE IF b >= Len(f) THEN "oob"
    ELSE IF data[a + b + 1] # f[b + 1] THEN "mismatch"
    ELSE compare_at(data, f, a, b + 1)

\* ---- find_string ----
RECURSIVE find_string_loop(_, _, _)
find_string_loop(data, f, a) ==
    IF a >= ByteLen(data) THEN Ok(None)
    ELSE LET m == compare_at(data, f, a, 0)
         IN  IF m = "match" THEN Ok(Some(a))
             ELSE IF m = "oob" THEN Panic("oob")
             ELSE find_string_loop(data, f, a + 1)

find_string_m(data, f) ==
    IF ByteLen(f) > ByteLen(data) THEN Ok(None)
    ELSE IF ByteLen(data) = 0 THEN Ok(None)
    ELSE IF ByteLen(f) = 0 THEN Ok(Some(0))
    ELSE find_string_loop(data, f, 0)
find_string(data, f) ==
    IF ByteLen(f) > ByteLen(data) THEN Ok(None)
    ELSE IF ByteLen(f) = 0 THEN Ok(Some(0))
    ELSE find_string_loop(data, f, 0)

\* ---- rfind_char ----
RECURSIVE rfind_char_loop(_, _, _)
rfind_char_loop(revchars, f, indx) ==
    IF revchars = <<>> THEN Ok(None)
    ELSE IF Head(revchars) = f THEN Ok(Some(indx))
    ELSE IF indx = 0 THEN Panic("overflow")
    ELSE rfind_char_loop(Tail(revchars), f, indx - 1)

rfind_char_m(data, f) == rfind_char_loop(Reverse(data), f, Len(data))
rfind_char(data, f) == rfind_char_loop(Reverse(data), f, ByteLen(data))

\* ---- rfind_string ----
RECURSIVE rfind_string_loop(_, _, _)
rfind_string_loop(data, f, a) ==
    IF a < 0 THEN Ok(None)
    ELSE LET m == compare_at(data, f, a, 0)
         IN  IF m = "match" THEN Ok(Some(a))
             ELSE IF m = "oob" THEN Panic("oob")
             ELSE rfind_string_loop(data, f, a - 1)

rfind_string(data, f) ==
    IF ByteLen(f) > ByteLen(data) THEN Ok(None)
    ELSE IF ByteLen(data) = 0 THEN Ok(None)
    ELSE IF ByteLen(f) = 0 THEN Ok(Some(ByteLen(data) - 1))
    ELSE rfind_string_loop(data, f, ByteLen(data) - ByteLen(f))

\* ---- split_index ----
split_index_m(data, indx) ==
    IF indx >= ByteLen(data) THEN Ok(<<None, None>>)
    ELSE IF ~IsCharBoundary(data, indx) THEN Panic("boundary")
    ELSE Ok(<<None, Some(SliceFrom(data, indx))>>)
split_index(data, indx) ==
    IF indx >= ByteLen(data) THEN Ok(<<None, None>>)
    ELSE IF ~IsCharBoundary(data, indx) THEN Panic("boundary")
    ELSE Ok(<<Some(SliceTo(data, indx)), Some(SliceFrom(data, indx))>>)

\* ---- split_char ----
split_char(data, s) ==
    LET r == find_char(data, s)
    IN  IF r.val # None
        THEN LET seperator == r.val[1]
             IN  IF seperator >= ByteLen(data) THEN Ok(<<None, None>>)
                 ELSE IF ~IsCharBoundary(data, seperator) THEN Panic("boundary")
                 ELSE Ok(<<Some(SliceTo(data, seperator)),
                           Some(SliceFrom(data, seperator))>>)
        ELSE Ok(<<Some(data), None>>)

\* ---- split_string ----
split_string_m(data, s) ==
    LET r == find_string(data, s)
    IN  IF r.kind # "ok" THEN r
        ELSE IF r.val # None THEN split_index(data, r.val[1] + 1)
        ELSE Ok(<<Some(data), None>>)
split_string(data, s) ==
    LET r == find_string(data, s)
    IN  IF r.kind # "ok" THEN r
        ELSE IF r.val # None THEN split_index(data, r.val[1])
        ELSE Ok(<<Some(data), None>>)

\* ---- state ----
VARIABLES data, needle, c, indx, op, res
vars == <<data, needle, c, indx, op, res>>

\* data: the String of the ZSV the methods are called on; needle, c, indx:
\* the arguments; op: the last method called; res: its outcome
Init ==
    /\ data \in Texts(MaxLen)
    /\ needle \in Texts(MaxNeedle)
    /\ c \in Chars
    /\ indx \in 0..(2 * MaxLen)
    /\ op = "from"
    /\ res = Ok(<<>>)

FindChar ==
    /\ op' = "find_char"
    /\ res' = find_char(data, c)
    /\ UNCHANGED <<data, needle, c, indx>>

FindString ==
    /\ op' = "find_string"
    /\ res' = find_string(data, needle)
    /\ UNCHANGED <<data, needle, c, indx>>

RfindChar ==
    /\ op' = "rfind_char"
    /\ res' = rfind_char(data, c)
    /\ UNCHANGED <<data, needle, c, indx>>

RfindString ==
    /\ op' = "rfind_string"
    /\ res' = rfind_string(data, needle)
    /\ UNCHANGED <<data, needle, c, indx>>

SplitChar ==
    /\ op' = "split_char"
    /\ res' = split_char(data, c)
    /\ UNCHANGED <<data, needle, c, indx>>

SplitIndex ==
    /\ op' = "split_index"
    /\ res' = split_index(data, indx)
    /\ UNCHANGED <<data, needle, c, indx>>

SplitString ==
    /\ op' = "split_string"
    /\ res' = split_string(data, needle)
    /\ UNCHANGED <<data, needle, c, indx>>

Next ==
    \/ FindChar
    \/ FindString
    \/ RfindChar
    \/ RfindString
    \/ SplitChar
    \/ SplitIndex
    \/ SplitString

Spec == Init /\ [][Next]_vars

\* ---- reference notions used by the properties ----
IsAscii(s) == \A k \in 1..Len(s) : Width(s[k]) = 1

InText(ch, s) == \E k \in 1..Len(s) : s[k] = ch

\* n occurs in h as a contiguous run of chars starting at zero-based index a
Occurs(h, n, a) ==
    /\ a + Len(n) <= Len(h)
    /\ \A k \in 1..Len(n) : h[a + k] = n[k]

OccIdx(h, n) == {a \in 0..Len(h) : Occurs(h, n, a)}

CharIdx(h, ch) == {a \in 0..(Len(h) - 1) : h[a + 1] = ch}

MinOf(S) == CHOOSE x \in S : \A y \in S : x <= y

MaxOf(S) == CHOOSE x \in S : \A y \in S : x >= y

\* C1: for an ASCII-only haystack and a non-empty ASCII-only needle no longer
\* than the haystack, find_string completes without reading past the end of
\* the haystack's char array and returns Some(smallest index of an
\* occurrence), or None when the needle does not occur.
C1_FindStringAscii ==
    (/\ op = "find_string"
     /\ IsAscii(data) /\ IsAscii(needle)
     /\ needle # <<>> /\ Len(needle) <= Len(data))
    => res = Ok(IF OccIdx(data, needle) = {} THEN None
                ELSE Some(MinOf(OccIdx(data, needle))))

\* C2: when the separator char does not occur split_char returns
\* (Some(H), None), and when the needle does not occur split_string returns
\* (Some(H), None), the left value being the whole haystack.
C2_SplitAbsent ==
    /\ (op = "split_char" /\ ~InText(c, data))
          => res = Ok(<<Some(data), None>>)
    /\ (op = "split_string" /\ OccIdx(data, needle) = {})
          => res = Ok(<<Some(data), None>>)

\* C3: for a non-empty haystack and a non-empty needle whose byte length
\* does not exceed the haystack's (multi-byte chars included), rfind_string
\* returns Some(greatest char index of an occurrence), or None when the
\* needle occurs nowhere.
C3_RfindStringLast ==
    (/\ op = "rfind_string"
     /\ data # <<>> /\ needle # <<>>
     /\ ByteLen(needle) <= ByteLen(data))
    => res = Ok(IF OccIdx(data, needle) = {} THEN None
                ELSE Some(MaxOf(OccIdx(data, needle))))

\* C4: for every text and every index i below its length, split_index
\* returns (Some(left), Some(right)) with left + right = H and len(left) = i.
C4_SplitIndexRoundTrip ==
    (op = "split_index" /\ indx < ByteLen(data))
    => /\ res.kind = "ok"
       /\ res.val[1] # None /\ res.val[2] # None
       /\ res.val[1][1] \o res.val[2][1] = data
       /\ ByteLen(res.val[1][1]) = indx

\* C5: whenever find_string(H, N) returns Some(p), split_string(H, N) has
\* exactly the outcome of split_index(H, p).
C5_SplitStringIsSplitIndex ==
    (/\ op = "split_string"
     /\ find_string(data, needle).kind = "ok"
     /\ find_string(data, needle).val # None)
    => res = split_index(data, find_string(data, needle).val[1])

C5_Witness ==
    /\ op = "split_string"
    /\ needle # <<>>
    /\ res.kind = "ok"
    /\ res.val[1] # None /\ res.val[2] # None
    /\ res.val[1][1] # <<>>

C8_FindCharFirst ==
    op = "find_char" =>
       /\ res.kind = "ok"
       /\ (res.val = None) <=> ~InText(c, data)
       /\ InText(c, data) => res.val = Some(MinOf(CharIdx(data, c)))

C8_Witness ==
    /\ op = "find_char"
    /\ Len(data) >= 3 /\ data[3] = c
    /\ res = Ok(Some(1))

\* C9: when s occurs in H, split_char returns (Some(left), Some(right)),
\* never (None, None); left holds no s, right begins with s,
\* left + right = H, and the outcome is that of
\* split_index(H, find_char(H, s)).
C9_SplitCharAtFirst ==
    (op = "split_char" /\ InText(c, data))
    => /\ res.kind = "ok"
       /\ res.val[1] # None /\ res.val[2] # None
       /\ ~InText(c, res.val[1][1])
       /\ res.val[2][1] # <<>> /\ Head(res.val[2][1]) = c
       /\ res.val[1][1] \o res.val[2][1] = data
       /\ res = split_index(data, find_char(data, c).val[1])

\* C10: a pair returned by split_index, split_char or split_string is
\* (None, None), (Some, None) or (Some, Some), never (None, Some); two
\* present halves concatenate to the haystack, a lone left half is the
\* haystack; split_string returns (None, None) only on an empty haystack.
C10_SplitShape ==
    (op \in {"split_index", "split_char", "split_string"} /\ res.kind = "ok")
    => /\ ~(res.val[1] = None /\ res.val[2] # None)
       /\ (res.val[1] # None /\ res.val[2] # None)
             => res.val[1][1] \o res.val[2][1] = data
       /\ (res.val[1] # None /\ res.val[2] = None)
             => res.val[1][1] = data
       /\ (op = "split_string" /\ res.val = <<None, None>>) => data = <<>>

C10_Witness ==
    /\ op = "split_string"
    /\ data = <<>>
    /\ res = Ok(<<None, None>>)

====
